---- MODULE Spec2Model ----
(***************************************************************************)
(* Model of modules/index_calculation.py: compute_no_of_shares, merge_fx   *)
(* and calculate_index_level, run one after the other on one dataset.      *)
(*                                                                         *)
(* Numbers are exact rationals [n, d] in lowest terms; [n |-> 0, d |-> 0]  *)
(* is the float not-a-number.  Dates are day numbers; the tables are       *)
(* functions from their (duplicate-free) date column to a row.             *)
(***************************************************************************)
EXTENDS Integers, Sequences, FiniteSets

VARIABLES pc, df_stock, df_weights, df_fx, df_currency, df_weights_copy,
          no_of_shares, rb, fx_cols, PortfolioValue, IndexLevel, li, log,
          raised

vars == <<pc, df_stock, df_weights, df_fx, df_currency, df_weights_copy,
          no_of_shares, rb, fx_cols, PortfolioValue, IndexLevel, li, log,
          raised>>

\* Largest day number a table of the dataset may hold.
MaxDate == 4

\* cutoff_date = pd.to_datetime("04-Jan-2017"), as a day number: day 2 is
\* 04-Jan-2017, day 1 the day before, larger days are later.
CutoffDate == 2

Dates == 1..MaxDate

Assets == {"A", "B"}

----------------------------------------------------------------------------
(* Float arithmetic, exact on the finite values and propagating NaN.       *)

NaN == [n |-> 0, d |-> 0]

IsNaN(x) == x.d = 0

RECURSIVE GCD(_, _)
GCD(a, b) == IF b = 0 THEN a ELSE GCD(b, a % b)

Rat(n, d) == LET g == GCD(n, d) IN [n |-> n \div g, d |-> d \div g]

Num(k) == [n |-> k, d |-> 1]

\* x == 0 of a float: false of NaN.
IsZero(x) == ~IsNaN(x) /\ x.n = 0

Mul(x, y) == IF IsNaN(x) \/ IsNaN(y) THEN NaN ELSE Rat(x.n * y.n, x.d * y.d)

Add(x, y) ==
    IF IsNaN(x) \/ IsNaN(y) THEN NaN ELSE Rat(x.n * y.d + y.n * x.d, x.d * y.d)

\* x / y; both divisions of the module are guarded against y == 0.
Div(x, y) ==
    IF IsNaN(x) \/ IsNaN(y) \/ y.n = 0 THEN NaN ELSE Rat(x.n * y.d, x.d * y.n)

\* abs(ratio - 1) > 0.1; a comparison with NaN is false.
Extreme(ratio) ==
    /\ ~IsNaN(ratio)
    /\ LET diff == IF ratio.n >= ratio.d THEN ratio.n - ratio.d
                   ELSE ratio.d - ratio.n
       IN diff * 10 > ratio.d

RECURSIVE Ascending(_)
Ascending(S) ==
    IF S = {} THEN <<>>
    ELSE LET m == CHOOSE x \in S : \A y \in S : x <= y
         IN <<m>> \o Ascending(S \ {m})

\* sort_values("Date") of a table: its dates in ascending order.
sort_values(table) == Ascending(DOMAIN table)

Max(S) == CHOOSE x \in S : \A y \in S : y <= x

EmptyTable == [t \in {} |-> NaN]

Entry(level, msg, date, asset) ==
    [level |-> level, msg |-> msg, date |-> date, asset |-> asset]

----------------------------------------------------------------------------
(* The datasets.                                                           *)

\* Rows of the price table: valid prices, zero prices, a missing price.
PriceRows ==
    { [a \in Assets |-> IF a = "A" THEN Num(10) ELSE Num(20)],
      [a \in Assets |-> IF a = "A" THEN Num(11) ELSE Num(19)],
      [a \in Assets |-> Num(0)],
      [a \in Assets |-> IF a = "A" THEN NaN ELSE Num(20)] }

\* A weight cell: the number written, with or without a trailing '%'.
Cell(num, pct) == [num |-> num, pct |-> pct]

WeightRows ==
    { [a \in Assets |-> IF a = "A" THEN Cell(60, TRUE) ELSE Cell(40, FALSE)] }

Tables(rows) == UNION { [S -> rows] : S \in SUBSET Dates }

\* A currency-map cell: the code, possibly written with surrounding blanks.
Cur(code, pad) == [code |-> code, pad |-> pad]

FxPairs == {"EURUSD", "GBPUSD"}

FxRate(pair) == IF pair = "EURUSD" THEN Num(2) ELSE Num(3)

\* The FX table: its columns other than "Date", and its rows by date.
FxTable(cols, S) ==
    [cols |-> cols, rows |-> [t \in S |-> [p \in cols |-> FxRate(p)]]]

FullFx == FxTable(FxPairs, Dates)

UsdMap == [a \in Assets |-> Cur("USD", FALSE)]

\* Any prices and rebalance dates, every asset quoted in the base currency.
InitPrices ==
    /\ df_stock \in Tables(PriceRows)
    /\ df_weights \in Tables(WeightRows)
    /\ df_fx = FullFx
    /\ df_currency = UsdMap

\* Valid prices on every day, one rebalance on day 2, any FX table and
\* currency map.
InitFx ==
    /\ df_stock = [t \in Dates |->
                     [a \in Assets |-> IF a = "A" THEN Num(10 + (t % 2))
                                       ELSE Num(20 - (t % 2))]]
    /\ df_weights \in [{2} -> WeightRows]
    /\ \E S \in SUBSET Dates, cols \in {FxPairs, {"GBPUSD"}} :
          df_fx = FxTable(cols, S)
    /\ \E M \in SUBSET Assets :
          df_currency \in
            [M -> {Cur("USD", FALSE), Cur("USD", TRUE), Cur("EUR", FALSE),
                   Cur("GBP", FALSE), Cur("JPY", FALSE)}]

Init ==
    /\ pc = "start"
    /\ InitPrices \/ InitFx
    /\ df_weights_copy = EmptyTable
    /\ no_of_shares = EmptyTable
    /\ rb = 0
    /\ fx_cols = EmptyTable
    /\ PortfolioValue = EmptyTable
    /\ IndexLevel = EmptyTable
    /\ li = 0
    /\ log = {}
    /\ raised = "none"

----------------------------------------------------------------------------
(* compute_no_of_shares(df_stock, df_weights)                              *)

\* The columns of df_weights other than "Date".
asset_cols == Assets

\* astype(str): the text of a weight cell.
AsStr(cell) == [digits |-> cell.num, suffix |-> IF cell.pct THEN "%" ELSE ""]

\* str.replace('%', '')
StripPercent(s) == [s EXCEPT !.suffix = ""]

\* astype(float) of a text holding only a number.
AsFloat(s) == Num(s.digits)

\* Weight percentages to decimals.
ParseWeight(cell) == Div(AsFloat(StripPercent(AsStr(cell))), Num(100))

weights_dates == sort_values(df_weights_copy)

\* Variant of prev_prices that also takes the rebalance date's own row.
prev_prices_inclusive(stock, rb_date) == { t \in DOMAIN stock : t <= rb_date }

\* prev_prices_df: the rows of df_stock dated strictly before rb_date.
prev_prices(stock, rb_date) == { t \in DOMAIN stock : t < rb_date }

\* The date of the last row of prev_prices_df.
last_date(stock, rb_date) == Max(prev_prices(stock, rb_date))

\* The shares of one asset at one rebalance.
shares(weight, price) == IF IsZero(price) THEN NaN ELSE Div(weight, price)

\* Variant of mask that writes the shares on the rebalance date's row only.
mask_first_row(stock, wd, i) == { t \in DOMAIN stock : t = wd[i] }

\* The rows that hold the shares of rebalance i of the dates wd.
mask(stock, wd, i) ==
    IF i < Len(wd)
    THEN { t \in DOMAIN stock : t >= wd[i] /\ t < wd[i + 1] }
    ELSE { t \in DOMAIN stock : t >= wd[i] }

\* Lines 21-36: parse the weights, sort, create the empty shares table.
ComputeBegin ==
    /\ pc = "start"
    /\ df_weights_copy' =
          [t \in DOMAIN df_weights |->
             [a \in asset_cols |-> ParseWeight(df_weights[t][a])]]
    /\ no_of_shares' = [t \in DOMAIN df_stock |-> [a \in asset_cols |-> NaN]]
    /\ rb' = 1
    /\ pc' = "shares"
    /\ UNCHANGED <<df_stock, df_weights, df_fx, df_currency, fx_cols,
                   PortfolioValue, IndexLevel, li, log, raised>>

\* One iteration of the loop over the rebalance dates (lines 38-65).
ComputeStep ==
    /\ pc = "shares"
    /\ rb <= Len(weights_dates)
    /\ LET rb_date == weights_dates[rb] IN
         IF prev_prices(df_stock, rb_date) = {}
         THEN /\ log' = log \cup
                    {Entry("warning", "NoStockDataBefore", rb_date, "-")}
              /\ UNCHANGED no_of_shares
         ELSE LET last == last_date(df_stock, rb_date)
                  last_prices == df_stock[last]
                  row_weights == df_weights_copy[rb_date]
                  held == mask(df_stock, weights_dates, rb)
              IN /\ log' = log \cup
                       { Entry("error", "ZeroPrice", last, a) :
                           a \in { b \in asset_cols : IsZero(last_prices[b]) } }
                 /\ no_of_shares' =
                       [t \in DOMAIN no_of_shares |->
                          IF t \in held
                          THEN [a \in asset_cols |->
                                  shares(row_weights[a], last_prices[a])]
                          ELSE no_of_shares[t]]
    /\ rb' = rb + 1
    /\ UNCHANGED <<pc, df_stock, df_weights, df_fx, df_currency,
                   df_weights_copy, fx_cols, PortfolioValue, IndexLevel, li,
                   raised>>

\* Lines 67-68: the loop is over, the table is returned.
ComputeReturn ==
    /\ pc = "shares"
    /\ rb > Len(weights_dates)
    /\ log' = log \cup {Entry("info", "ComputedShares", 0, "-")}
    /\ pc' = "merge"
    /\ UNCHANGED <<df_stock, df_weights, df_fx, df_currency, df_weights_copy,
                   no_of_shares, rb, fx_cols, PortfolioValue, IndexLevel, li,
                   raised>>

----------------------------------------------------------------------------
(* merge_fx(df_stock, df_fx, df_currency)                                  *)

\* cur.strip()
strip(cell) == cell.code

\* Mapping asset -> currency.
currency_map == [a \in DOMAIN df_currency |-> strip(df_currency[a])]

\* Variant of fx_column that looks the base currency up like any other.
fx_column_lookup_usd(cur) ==
    CASE cur = "USD" -> "EURUSD"
      [] cur = "EUR" -> "EURUSD"
      [] cur = "GBP" -> "GBPUSD"
      [] OTHER -> "none"

\* The FX column an asset of currency cur takes, or "none" for the constant 1.
fx_column(cur) ==
    CASE cur = "USD" -> "none"
      [] cur = "EUR" -> "EURUSD"
      [] cur = "GBP" -> "GBPUSD"
      [] OTHER -> "none"

\* df_fx[column]: a column the FX table does not have raises KeyError.
KeyErrorIn(map, fx) ==
    \E a \in DOMAIN map :
       fx_column(map[a]) # "none" /\ fx_column(map[a]) \notin fx.cols

\* The value of the column asset + "_FX" on date t; a column of df_fx is
\* aligned on the date, a date df_fx lacks gives NaN.
fx_factor(cur, fx, t) ==
    IF fx_column(cur) = "none" THEN Num(1)
    ELSE IF t \in DOMAIN fx.rows THEN fx.rows[t][fx_column(cur)]
    ELSE NaN

MergeFx ==
    /\ pc = "merge"
    /\ IF KeyErrorIn(currency_map, df_fx)
       THEN /\ raised' = "KeyError"
            /\ pc' = "failed"
            /\ UNCHANGED <<fx_cols, log>>
       ELSE /\ fx_cols' =
                 [t \in DOMAIN df_stock |->
                    [a \in DOMAIN currency_map |->
                       fx_factor(currency_map[a], df_fx, t)]]
            /\ log' = log \cup {Entry("info", "MergedFx", 0, "-")}
            /\ pc' = "index"
            /\ UNCHANGED raised
    /\ UNCHANGED <<df_stock, df_weights, df_fx, df_currency, df_weights_copy,
                   no_of_shares, rb, PortfolioValue, IndexLevel, li>>

----------------------------------------------------------------------------
(* calculate_index_level(df_stock, no_of_shares)                           *)

\* row.get(asset + "_FX", 1)
row_get_fx(fxrow, asset) ==
    IF asset \in DOMAIN fxrow THEN fxrow[asset] ELSE Num(1)

\* Variant of port_value that skips a term that is NaN, as a NaN-ignoring
\* sum would.
RECURSIVE port_value_skipna(_, _, _, _)
port_value_skipna(S, row, fxrow, shares_row) ==
    IF S = {} THEN Num(0)
    ELSE LET asset == CHOOSE a \in S : TRUE
             term == Mul(Mul(shares_row[asset], row[asset]),
                         row_get_fx(fxrow, asset))
             rest == port_value_skipna(S \ {asset}, row, fxrow, shares_row)
         IN IF IsNaN(term) THEN rest ELSE Add(rest, term)

\* port_value after adding the terms of the assets S to 0.0.
RECURSIVE port_value(_, _, _, _)
port_value(S, row, fxrow, shares_row) ==
    IF S = {} THEN Num(0)
    ELSE LET asset == CHOOSE a \in S : TRUE
             price == row[asset]
             fx == row_get_fx(fxrow, asset)
         IN Add(port_value(S \ {asset}, row, fxrow, shares_row),
                Mul(Mul(shares_row[asset], price), fx))

\* The PortfolioValue column after the loop of lines 146-160.
portfolio_values(stock, fxc, shares_table) ==
    [t \in DOMAIN stock |->
       IF t \notin DOMAIN shares_table THEN NaN
       ELSE port_value(asset_cols, stock[t], fxc[t], shares_table[t])]

\* The IndexLevel column after line 141.
initial_levels(stock) ==
    [t \in DOMAIN stock |-> IF t <= CutoffDate THEN Num(100) ELSE NaN]

\* Carry forward: missing or zero previous portfolio value.
carries(prev_value) == IsNaN(prev_value) \/ IsZero(prev_value)

\* Variant of next_level with the ratio upside down.
next_level_inverse(prev_level, prev_value, current_value) ==
    IF carries(prev_value) THEN prev_level
    ELSE Mul(prev_level, Div(prev_value, current_value))

\* Variant of next_level that restarts from the base level when it carries.
next_level_reset(prev_level, prev_value, current_value) ==
    IF carries(prev_value) THEN Num(100)
    ELSE Mul(prev_level, Div(current_value, prev_value))

\* Variant of next_level that reads a last valid level, seeded with the base
\* level, when the previous row's level is undefined.
next_level_last_valid(prev_level, prev_value, current_value) ==
    LET last_valid == IF IsNaN(prev_level) THEN Num(100) ELSE prev_level
    IN IF carries(prev_value) THEN last_valid
       ELSE Mul(last_valid, Div(current_value, prev_value))

\* The IndexLevel written to row i, from row i - 1 (lines 164-175).
next_level(prev_level, prev_value, current_value) ==
    IF carries(prev_value) THEN prev_level
    ELSE Mul(prev_level, Div(current_value, prev_value))

stock_dates == sort_values(df_stock)

\* Lines 134-160: sort, the two new columns, the portfolio value of each day.
CalcBegin ==
    /\ pc = "index"
    /\ PortfolioValue' = portfolio_values(df_stock, fx_cols, no_of_shares)
    /\ IndexLevel' = initial_levels(df_stock)
    /\ log' = log \cup
          { Entry("warning", "NoShareData", t, "-") :
              t \in DOMAIN df_stock \ DOMAIN no_of_shares }
    /\ li' = 2
    /\ pc' = "link"
    /\ UNCHANGED <<df_stock, df_weights, df_fx, df_currency, df_weights_copy,
                   no_of_shares, rb, fx_cols, raised>>

\* One iteration of the loop of lines 163-175.
LinkStep ==
    /\ pc = "link"
    /\ li <= Len(stock_dates)
    /\ LET t == stock_dates[li]
           p == stock_dates[li - 1]
           prev_value == PortfolioValue[p]
           current_value == PortfolioValue[t]
       IN /\ IndexLevel' =
                [IndexLevel EXCEPT
                   ![t] = next_level(IndexLevel[p], prev_value, current_value)]
          /\ log' = log \cup
                (IF carries(prev_value)
                 THEN {Entry("warning", "CarryForward", t, "-")}
                 ELSE IF Extreme(Div(current_value, prev_value))
                 THEN {Entry("warning", "ExtremeMovement", t, "-")}
                 ELSE {})
    /\ li' = li + 1
    /\ UNCHANGED <<pc, df_stock, df_weights, df_fx, df_currency,
                   df_weights_copy, no_of_shares, rb, fx_cols, PortfolioValue,
                   raised>>

\* Lines 177-178.
CalcReturn ==
    /\ pc = "link"
    /\ li > Len(stock_dates)
    /\ log' = log \cup {Entry("info", "IndexLevelComplete", 0, "-")}
    /\ pc' = "done"
    /\ UNCHANGED <<df_stock, df_weights, df_fx, df_currency, df_weights_copy,
                   no_of_shares, rb, fx_cols, PortfolioValue, IndexLevel, li,
                   raised>>

Next ==
    \/ ComputeBegin
    \/ ComputeStep
    \/ ComputeReturn
    \/ MergeFx
    \/ CalcBegin
    \/ LinkStep
    \/ CalcReturn

Spec == Init /\ [][Next]_vars

----------------------------------------------------------------------------
(* Vocabulary of the properties.                                           *)

\* compute_no_of_shares has returned its table.
SharesReturned == pc \in {"merge", "index", "link", "done", "failed"}

\* merge_fx has returned the merged table.
FxMerged == pc \in {"index", "link", "done"}

\* The portfolio values and the initial levels have been written.
Valued == pc \in {"link", "done"}

\* Row i of the sorted price table has been written by the chain-link loop.
Linked(i) == Valued /\ i >= 2 /\ i < li /\ i <= Len(stock_dates)

\* Rebalance k of the sorted rebalance dates has been through the loop.
Allocated(k) ==
    /\ pc # "start"
    /\ k \in 1..Len(weights_dates)
    /\ (pc = "shares" => k < rb)

RebalanceDates == DOMAIN df_weights

\* d is the latest price date strictly before r.
LatestBefore(d, r) ==
    /\ d \in DOMAIN df_stock
    /\ d < r
    /\ \A e \in DOMAIN df_stock : e < r => e <= d

\* Price date t lies in the rebalance interval that starts at r.
InInterval(t, r) ==
    /\ r \in RebalanceDates
    /\ t \in DOMAIN df_stock
    /\ r <= t
    /\ \A q \in RebalanceDates : q <= t => q <= r

\* The weight a cell stands for: 60% and 60 are both 0.60.
Weight(cell) == Rat(cell.num, 100)

\* The currency pair quoting a currency against the base currency.
QuotePair(cur) ==
    CASE cur = "EUR" -> "EURUSD"
      [] cur = "GBP" -> "GBPUSD"
      [] cur = "JPY" -> "JPYUSD"
      [] OTHER -> "USDUSD"

\* The FX table has no quote of currency cur on date t.
NoQuote(cur, t) ==
    QuotePair(cur) \notin df_fx.cols \/ t \notin DOMAIN df_fx.rows

----------------------------------------------------------------------------
(* C1: the first date of the price table has index level 100, whatever    *)
(* dates the table covers.                                                 *)
C1_FirstDateIs100 ==
    (Valued /\ DOMAIN df_stock # {})
        => IndexLevel[stock_dates[1]] = Num(100)

C3_CarryForward ==
    /\ \A i \in 2..Len(stock_dates) :
          LET t == stock_dates[i]
              p == stock_dates[i - 1]
          IN (/\ Linked(i)
              /\ (IsNaN(PortfolioValue[p]) \/ PortfolioValue[p] = Num(0)))
             => /\ IndexLevel[t] = IndexLevel[p]
                /\ Entry("warning", "CarryForward", t, "-") \in log
    /\ pc = "done" => li > Len(stock_dates)

\* A zero portfolio value on p, the level of p carried to t, and the row
\* after t chained from t.
C3_Witness ==
    /\ pc = "done"
    /\ \E i \in 2..(Len(stock_dates) - 1) :
          LET t == stock_dates[i]
              p == stock_dates[i - 1]
              u == stock_dates[i + 1]
          IN /\ PortfolioValue[p] = Num(0)
             /\ IndexLevel[p] = Num(100)
             /\ IndexLevel[t] = Num(100)
             /\ Entry("warning", "CarryForward", t, "-") \in log
             /\ ~IsNaN(PortfolioValue[t]) /\ PortfolioValue[t] # Num(0)
             /\ ~IsNaN(PortfolioValue[u])
             /\ Entry("warning", "CarryForward", u, "-") \notin log

C5_ZeroPriceRaises ==
    \A k \in 1..Len(weights_dates), d \in DOMAIN df_stock, a \in Assets :
       (/\ Allocated(k)
        /\ LatestBefore(d, weights_dates[k])
        /\ df_stock[d][a] = Num(0))
          => raised = "ComputationError"

(* C6: an asset of a non-base currency without an FX quote on a price date *)
(* makes the engine raise; no merged table with a default or empty factor  *)
(* is returned.                                                            *)
C6_MissingFxRaises ==
    \A a \in DOMAIN df_currency, t \in DOMAIN df_stock :
       (/\ pc \in {"index", "link", "done", "failed"}
        /\ df_currency[a].code # "USD"
        /\ NoQuote(df_currency[a].code, t))
          => raised # "none"

(* C7: an asset whose currency is the base currency has FX factor exactly  *)
(* 1.0 on every price date, whatever the FX table holds.                   *)
C7_BaseCurrencyFactorIsOne ==
    FxMerged =>
       \A a \in DOMAIN df_currency, t \in DOMAIN df_stock :
          df_currency[a].code = "USD"
             => /\ fx_cols[t][a] = Num(1)
                /\ row_get_fx(fx_cols[t], a) = Num(1)

\* A base-currency asset with factor 1 on a date the FX table lacks, next
\* to an asset quoted in EUR whose factor is not 1.
C7_Witness ==
    /\ FxMerged
    /\ \E a, b \in DOMAIN df_currency, t, u \in DOMAIN df_stock :
          /\ df_currency[a].code = "USD"
          /\ t \notin DOMAIN df_fx.rows
          /\ fx_cols[t][a] = Num(1)
          /\ df_currency[b].code = "EUR"
          /\ fx_cols[u][b] = Num(2)
          /\ IsNaN(fx_cols[t][b])

C9_PortfolioValue ==
    Valued =>
       \A t \in DOMAIN df_stock :
          LET term(a) ==
                 Mul(Mul(no_of_shares[t][a], df_stock[t][a]),
                     IF a \in DOMAIN fx_cols[t] THEN fx_cols[t][a] ELSE Num(1))
          IN /\ PortfolioValue[t] = Add(term("A"), term("B"))
             /\ (\E a \in Assets : IsNaN(df_stock[t][a]))
                   => IsNaN(PortfolioValue[t])

\* A date with finite shares and a missing price whose value is undefined,
\* and a date valued 1.04.
C9_Witness ==
    /\ Valued
    /\ \E t, u \in DOMAIN df_stock :
          /\ IsNaN(df_stock[t]["A"])
          /\ ~IsNaN(no_of_shares[t]["A"]) /\ ~IsNaN(no_of_shares[t]["B"])
          /\ IsNaN(PortfolioValue[t])
          /\ PortfolioValue[u] = Rat(26, 25)

(* C10: a rebalance date without a trading day strictly before it makes    *)
(* the allocation fail with NoPriorData: the loop does not go on past it   *)
(* and return a table.                                                     *)
C10_NoPriorDataIsFatal ==
    \A k \in 1..Len(weights_dates) :
       (/\ Allocated(k)
        /\ ~ \E d \in DOMAIN df_stock : d < weights_dates[k])
          => raised = "NoPriorData"

(* C11: an undefined index level is absorbing: once a row of the sorted    *)
(* table has level NaN, every later row the loop writes has level NaN,     *)
(* whatever its portfolio value.                                           *)
C11_UndefinedLevelAbsorbing ==
    Valued =>
       \A i \in 1..Len(stock_dates) :
          IsNaN(IndexLevel[stock_dates[i]]) =>
             \A j \in (i + 1)..Len(stock_dates) :
                j < li => IsNaN(IndexLevel[stock_dates[j]])

\* A valid portfolio value followed by an undefined one makes the level
\* undefined, and the next row, whose portfolio value is valid, stays
\* undefined.
C11_Witness ==
    /\ pc = "done"
    /\ \E i \in 2..(Len(stock_dates) - 1) :
          LET p == stock_dates[i - 1]
              t == stock_dates[i]
              u == stock_dates[i + 1]
          IN /\ IndexLevel[p] = Num(100)
             /\ ~IsNaN(PortfolioValue[p]) /\ PortfolioValue[p] # Num(0)
             /\ IsNaN(PortfolioValue[t])
             /\ IsNaN(IndexLevel[t])
             /\ ~IsNaN(PortfolioValue[u]) /\ PortfolioValue[u] # Num(0)
             /\ IsNaN(IndexLevel[u])

\* The first row is dated after the cutoff, and a later row with a valid
\* portfolio value has an undefined level.
C11_LateStart ==
    /\ pc = "done"
    /\ Len(stock_dates) >= 2
    /\ stock_dates[1] > CutoffDate
    /\ IsNaN(IndexLevel[stock_dates[1]])
    /\ \E j \in 2..Len(stock_dates) :
          /\ ~IsNaN(PortfolioValue[stock_dates[j]])
          /\ IsNaN(IndexLevel[stock_dates[j]])

====
